---- MODULE Spec2Model ----
(***************************************************************************)
(* Model of windows/recollect_utils_plugin_c_api.cpp: the exported C entry *)
(* point RecollectUtilsPluginCApiRegisterWithRegistrar.                    *)
(*                                                                         *)
(*   void RecollectUtilsPluginCApiRegisterWithRegistrar(                   *)
(*       FlutterDesktopPluginRegistrarRef registrar) {                     *)
(*     recollect_utils::RecollectUtilsPlugin::RegisterWithRegistrar(       *)
(*         flutter::PluginRegistrarManager::GetInstance()                  *)
(*             ->GetRegistrar<flutter::PluginRegistrarWindows>(registrar));*)
(*   }                                                                     *)
(*                                                                         *)
(* The body is one expression.  C++ sequences it as: GetInstance() is      *)
(* evaluated, GetRegistrar is called on its result with the parameter,     *)
(* the value it returns is the argument of RegisterWithRegistrar, and the  *)
(* function returns when RegisterWithRegistrar has returned.  Each of      *)
(* these is one action below.  The two callees and the host are not part   *)
(* of the file; they are modelled as an environment that may return or     *)
(* fault.  History variables (calls, insts, lookups, regs) record what     *)
(* was called with what; the code does not read them.                      *)
(***************************************************************************)
EXTENDS Naturals, Sequences, FiniteSets

\* Bounds of the model.
NumHandles == 2
MaxCalls == 3

\* The null value of the pointer type FlutterDesktopPluginRegistrarRef.
NullHandle == 0

\* Every value the host can pass: the null handle and the host's registrars.
HostHandles == 1..NumHandles
Handles == {NullHandle} \cup HostHandles

\* A value of the opaque handle type (the raw pointer the host passes).
Ref(h) == [kind |-> "FlutterDesktopPluginRegistrarRef", ref |-> h]
\* A PluginRegistrarWindows object, the wrapper the manager keeps for handle h.
Typed(h) == [kind |-> "PluginRegistrarWindows", ref |-> h]
\* What a lookup on an invalid handle may hand back besides a wrapper.
Indeterminate(h) == [kind |-> "indeterminate", ref |-> h]
\* The singleton PluginRegistrarManager::GetInstance() returns.
Manager == [kind |-> "PluginRegistrarManager", ref |-> NullHandle]

VARIABLES
  pc,          \* position of the one (host) thread
  registrar,   \* the parameter of the exported function: <<>> outside a call
  instance,    \* the value of GetInstance() in this call: <<>> or <<Manager>>
  typed,       \* the value GetRegistrar returned in this call: <<>> or <<object>>
  live,        \* host: the registrar handles that are valid now
  registrars,  \* manager: the handles it holds a wrapper for
  registered,  \* plugin: the registrars whose registration has completed
  fault,       \* "none", or the callee a fault came out of
  calls,       \* history: the calls of the exported function
  insts,       \* history: the evaluations of GetInstance()
  lookups,     \* history: the calls of GetRegistrar
  regs         \* history: the entries into RegisterWithRegistrar

vars == <<pc, registrar, instance, typed, live, registrars, registered, fault,
          calls, insts, lookups, regs>>
frame == <<registrar, instance, typed>>
world == <<live, registrars, registered>>
history == <<calls, insts, lookups, regs>>

\* The call in progress (the index of the last call).
ThisCall == Len(calls)

Init ==
  /\ pc = "idle"
  /\ registrar = <<>>
  /\ instance = <<>>
  /\ typed = <<>>
  /\ live = HostHandles
  /\ registrars = {}
  /\ registered = <<>>
  /\ fault = "none"
  /\ calls = <<>>
  /\ insts = <<>>
  /\ lookups = <<>>
  /\ regs = <<>>

(***************************************************************************)
(* The callees, which are not part of the file.                            *)
(***************************************************************************)

\* The lookup has been called and has not returned yet.
Pending == [kind |-> "pending", ref |-> NullHandle]

\* PluginRegistrarManager::GetRegistrar<PluginRegistrarWindows>(a): the values
\* it may return.  For a handle the host keeps valid it is the wrapper of
\* that handle (the one it already holds, or a new one); for a null or
\* destroyed handle the behaviour is undefined: any object, or a fault.
GetRegistrarResults(a) ==
  IF a.ref \in live THEN {Typed(a.ref)}
  ELSE {Typed(a.ref), Indeterminate(a.ref)}
GetRegistrarMayFault(a) == a.ref \notin live

(***************************************************************************)
(* The expressions of the body.                                            *)
(***************************************************************************)

\* A null handle is replaced before the lookup instead of being passed on.
LookupArgNullReplaced ==
  IF registrar[1].ref = NullHandle THEN Ref(NumHandles) ELSE registrar[1]

\* Line 11: the argument of GetRegistrar is the parameter itself.
LookupArg == registrar[1]

\* The raw handle is handed to the plugin instead of the typed registrar.
RegisterArgRawHandle == registrar[1]

\* Lines 9-11: the argument of RegisterWithRegistrar is the value GetRegistrar
\* returned.
RegisterArg == typed[1]

\* Sequencing of the one expression statement.
CanGetInstance == pc = "entered"
\* The handle is converted a second time after the first conversion.
CanGetRegistrarAgain == pc \in {"haveInstance", "haveRegistrar"}
CanGetRegistrar == pc = "haveInstance"
\* The registration is repeated after it has returned.
CanRegisterAgain == pc \in {"haveRegistrar", "afterRegister"}
CanRegister == pc = "haveRegistrar"
\* The function returns while RegisterWithRegistrar is still running.
CanReturnWhileRegistering == pc \in {"inRegister", "afterRegister"}
CanReturn == pc = "afterRegister"

(***************************************************************************)
(* Actions.                                                                *)
(***************************************************************************)

\* The host calls the exported function with handle h (lines 7-8).  The
\* function itself has no guard: any handle, any number of times.
HostCall(h) ==
  /\ pc = "idle"
  /\ Len(calls) < MaxCalls
  /\ pc' = "entered"
  /\ registrar' = <<Ref(h)>>
  /\ calls' = Append(calls, [handle |-> h, valid |-> h \in live])
  /\ UNCHANGED <<instance, typed, world, fault, insts, lookups, regs>>

\* Line 10: flutter::PluginRegistrarManager::GetInstance().
GetInstance ==
  /\ CanGetInstance
  /\ pc' = "haveInstance"
  /\ instance' = <<Manager>>
  /\ insts' = Append(insts, ThisCall)
  /\ UNCHANGED <<registrar, typed, world, fault, calls, lookups, regs>>

\* Line 11: ->GetRegistrar<flutter::PluginRegistrarWindows>(registrar) is
\* called on the instance.
InvokeGetRegistrar ==
  /\ CanGetRegistrar
  /\ pc' = "inLookup"
  /\ lookups' = Append(lookups,
                       [call |-> ThisCall, on |-> instance[1], arg |-> LookupArg,
                        result |-> Pending])
  /\ UNCHANGED <<frame, world, fault, calls, insts, regs>>

\* GetRegistrar returns: the manager holds a wrapper for the handle and the
\* returned pointer is the value of the argument expression.
GetRegistrarReturns ==
  /\ pc = "inLookup"
  /\ \E r \in GetRegistrarResults(lookups[Len(lookups)].arg) :
       /\ typed' = <<r>>
       /\ lookups' = [lookups EXCEPT ![Len(lookups)].result = r]
  /\ registrars' = registrars \cup {lookups[Len(lookups)].arg.ref}
  /\ pc' = "haveRegistrar"
  /\ UNCHANGED <<registrar, instance, live, registered, fault, calls, insts, regs>>

\* GetRegistrar faults on an invalid handle.  Nothing in the body handles it:
\* it leaves the exported function and the run ends.
GetRegistrarFaults ==
  /\ pc = "inLookup"
  /\ GetRegistrarMayFault(lookups[Len(lookups)].arg)
  /\ pc' = "aborted"
  /\ fault' = "lookup"
  /\ UNCHANGED <<frame, world, history>>

\* A once-only guard: a registrar the plugin is already registered with is
\* not registered again.
InvokeRegisterOnce ==
  /\ CanRegister
  /\ IF \E i \in DOMAIN registered : registered[i] = RegisterArg
       THEN pc' = "afterRegister" /\ regs' = regs
       ELSE /\ pc' = "inRegister"
            /\ regs' = Append(regs, [call |-> ThisCall, arg |-> RegisterArg])
  /\ UNCHANGED <<frame, world, fault, calls, insts, lookups>>

\* Line 9: recollect_utils::RecollectUtilsPlugin::RegisterWithRegistrar(...)
\* is entered with the argument.
InvokeRegister ==
  /\ CanRegister
  /\ pc' = "inRegister"
  /\ regs' = Append(regs, [call |-> ThisCall, arg |-> RegisterArg])
  /\ UNCHANGED <<frame, world, fault, calls, insts, lookups>>

\* RegisterWithRegistrar returns: the plugin is registered with the registrar
\* it was given.
RegisterReturns ==
  /\ pc = "inRegister"
  /\ registered' = Append(registered, regs[Len(regs)].arg)
  /\ pc' = "afterRegister"
  /\ UNCHANGED <<frame, live, registrars, fault, history>>

\* RegisterWithRegistrar faults.  Nothing in the body handles it.
RegisterFaults ==
  /\ pc = "inRegister"
  /\ pc' = "aborted"
  /\ fault' = "register"
  /\ UNCHANGED <<frame, world, history>>

\* The handle is kept (in storage that outlives the call) when the function
\* returns.
ReturnKeepingRegistrar ==
  /\ CanReturn
  /\ pc' = "idle"
  /\ instance' = <<>>
  /\ typed' = <<>>
  /\ UNCHANGED <<registrar, world, fault, history>>

\* Line 12: the function returns; its parameter and temporaries end.
Return ==
  /\ CanReturn
  /\ pc' = "idle"
  /\ registrar' = <<>>
  /\ instance' = <<>>
  /\ typed' = <<>>
  /\ UNCHANGED <<world, fault, history>>

\* The host destroys one of its registrars between calls; the manager's
\* destruction handler drops the wrapper.  The handle is invalid from then on.
HostDestroy(h) ==
  /\ pc = "idle"
  /\ h \in live
  /\ live' = live \ {h}
  /\ registrars' = registrars \ {h}
  /\ UNCHANGED <<pc, frame, registered, fault, history>>

Next ==
  \/ \E h \in Handles : HostCall(h)
  \/ GetInstance
  \/ InvokeGetRegistrar
  \/ GetRegistrarReturns
  \/ GetRegistrarFaults
  \/ InvokeRegister
  \/ RegisterReturns
  \/ RegisterFaults
  \/ Return
  \/ \E h \in HostHandles : HostDestroy(h)

Spec == Init /\ [][Next]_vars

TypeOK ==
  /\ pc \in {"idle", "entered", "haveInstance", "inLookup", "haveRegistrar",
             "inRegister", "afterRegister", "aborted"}
  /\ Len(registrar) <= 1 /\ Len(instance) <= 1 /\ Len(typed) <= 1
  /\ live \subseteq HostHandles
  /\ registrars \subseteq Handles
  /\ fault \in {"none", "lookup", "register"}
  /\ Len(calls) <= MaxCalls

(***************************************************************************)
(* Helpers of the properties.                                              *)
(***************************************************************************)

\* Call k is over: it returned to the host, or a fault ended it.
Over(k) == k < ThisCall \/ pc \in {"idle", "aborted"}
\* Call k returned to the host normally.
Returned(k) == k < ThisCall \/ pc = "idle"

InstsOf(k) == {i \in DOMAIN insts : insts[i] = k}
LookupsOf(k) == {i \in DOMAIN lookups : lookups[i].call = k}
RegsOf(k) == {i \in DOMAIN regs : regs[i].call = k}

(***************************************************************************)
(* C1: for every valid registrar handle h, one call of the exported        *)
(* function results in exactly one call of RegisterWithRegistrar, and its  *)
(* argument is the PluginRegistrarWindows object that GetRegistrar         *)
(* returned for that same handle h: not the wrapper of another handle and  *)
(* not the raw handle.                                                     *)
(***************************************************************************)
C1_OneRegistrationWithResolvedRegistrar ==
  \A k \in DOMAIN calls :
    (calls[k].valid /\ Over(k)) =>
      /\ Cardinality(RegsOf(k)) = 1
      /\ Cardinality(LookupsOf(k)) = 1
      /\ \A i \in RegsOf(k) : \A j \in LookupsOf(k) :
           /\ lookups[j].arg = Ref(calls[k].handle)
           /\ regs[i].arg = lookups[j].result
           /\ regs[i].arg = Typed(calls[k].handle)
           /\ regs[i].arg # Ref(calls[k].handle)
           /\ \A g \in Handles \ {calls[k].handle} : regs[i].arg # Typed(g)

\* Two calls with two different valid handles have both returned.
C1_Witness ==
  /\ pc = "idle"
  /\ Len(calls) >= 2
  /\ calls[1].valid /\ calls[2].valid
  /\ calls[1].handle # calls[2].handle
  /\ regs[1].arg = Typed(calls[1].handle)
  /\ regs[2].arg = Typed(calls[2].handle)

(***************************************************************************)
(* C2: the exported function validates nothing and raises no error of its  *)
(* own.  For every handle, null and invalid ones included, the handle is   *)
(* passed unmodified to the lookup, once; the only faults of a call are    *)
(* those that come out of the lookup or out of RegisterWithRegistrar, and  *)
(* the function neither catches them (after a fault of the lookup the      *)
(* plugin is not entered, after any fault nothing more is called) nor      *)
(* retries (no second lookup, no second registration).                     *)
(***************************************************************************)
C2_NoValidationNoErrorsOfItsOwn ==
  /\ \A j \in DOMAIN lookups :
       /\ lookups[j].call \in DOMAIN calls
       /\ lookups[j].arg = Ref(calls[lookups[j].call].handle)
  /\ \A k \in DOMAIN calls :
       /\ Cardinality(LookupsOf(k)) <= 1
       /\ Cardinality(RegsOf(k)) <= 1
       /\ Over(k) => Cardinality(LookupsOf(k)) = 1
  /\ (pc = "aborted") <=> (fault # "none")
  /\ fault = "lookup" =>
       /\ ~ calls[ThisCall].valid
       /\ lookups[Len(lookups)].call = ThisCall
       /\ lookups[Len(lookups)].result = Pending
       /\ RegsOf(ThisCall) = {}
       /\ typed = <<>>
  /\ fault = "register" =>
       /\ regs[Len(regs)].call = ThisCall
       /\ Len(registered) = Len(regs) - 1

\* The null handle reached the lookup as it was, and the lookup's fault
\* ended the call.
C2_Witness ==
  /\ fault = "lookup"
  /\ calls[ThisCall].handle = NullHandle
  /\ lookups[Len(lookups)].arg = Ref(NullHandle)

(***************************************************************************)
(* C3: the registration is synchronous.  Whenever the exported function    *)
(* has returned normally, every RegisterWithRegistrar it entered has       *)
(* completed, so the plugin is registered with the registrar of each       *)
(* returned call; nothing is left in progress or pending after a return.   *)
(***************************************************************************)
C3_RegisteredWhenReturned ==
  /\ \A k \in DOMAIN calls :
       Returned(k) =>
         \E i \in RegsOf(k) :
           /\ i <= Len(registered)
           /\ registered[i] = regs[i].arg
  /\ pc = "idle" =>
       /\ Len(registered) = Len(regs)
       /\ Len(regs) = Len(calls)
       /\ \A j \in DOMAIN lookups : lookups[j].result # Pending

\* A call has returned and the plugin holds its registrar.
C3_Witness ==
  /\ pc = "idle"
  /\ Len(calls) >= 1
  /\ Len(registered) = Len(calls)
  /\ registered[Len(registered)] = Typed(calls[Len(calls)].handle)

(***************************************************************************)
(* C4: the exported function is a single transition from unregistered to   *)
(* registered per call: a call enters RegisterWithRegistrar exactly one    *)
(* time, after its lookup and before it returns, so a run in which n calls *)
(* have returned has entered it n times (one time when the host calls the  *)
(* function once).                                                         *)
(***************************************************************************)
C4_OneTransitionPerCall ==
  /\ pc \in {"entered", "haveInstance", "inLookup", "haveRegistrar"} =>
       Len(regs) = Len(calls) - 1
  /\ pc \in {"inRegister", "afterRegister", "idle"} => Len(regs) = Len(calls)
  /\ fault = "lookup" => Len(regs) = Len(calls) - 1
  /\ fault = "register" => Len(regs) = Len(calls)

\* The host called once, the call returned, the plugin was entered once.
C4_Witness ==
  /\ pc = "idle"
  /\ Len(calls) = 1
  /\ Len(regs) = 1
  /\ Len(registered) = 1

\* C4 as stated: in every run RegisterWithRegistrar is invoked through the
\* exported function exactly one time.
C4_ExactlyOncePerRun ==
  /\ Len(regs) <= 1
  /\ (pc = "idle" /\ Len(calls) > 0) => Len(regs) = 1

(***************************************************************************)
(* C5: the exported function owns and introduces no state.  A step of a    *)
(* call changes nothing of the host, the manager or the plugin except      *)
(* what the lookup changes (the manager's wrappers) and what               *)
(* RegisterWithRegistrar changes (the plugin's registrations); no step of  *)
(* a call invalidates or releases a host handle; the handle in the         *)
(* parameter is never modified during the call; and once the call has      *)
(* returned no copy of the handle or of the typed registrar is kept.       *)
(***************************************************************************)
C5_Step ==
  /\ pc # "idle" => live' = live
  /\ (pc = "idle" /\ pc' # "idle") => UNCHANGED world
  /\ pc \in {"entered", "haveInstance", "haveRegistrar", "afterRegister"} =>
       UNCHANGED world
  /\ pc = "inLookup" => UNCHANGED <<live, registered>>
  /\ pc = "inRegister" => UNCHANGED <<live, registrars>>
  /\ (pc # "idle" /\ pc' # "idle") => registrar' = registrar
  /\ pc' = "idle" => (registrar' = <<>> /\ instance' = <<>> /\ typed' = <<>>)

C5_OwnsNoState == [][C5_Step]_vars

\* A call has returned: nothing is kept, the handle is still the host's and
\* valid, and the manager holds the wrapper the lookup made.
C5_Witness ==
  /\ pc = "idle"
  /\ Len(calls) >= 1
  /\ registrar = <<>> /\ instance = <<>> /\ typed = <<>>
  /\ calls[Len(calls)].handle \in live
  /\ calls[Len(calls)].handle \in registrars
  /\ Len(registered) = Len(calls)

(***************************************************************************)
(* C6: within one call the handle is converted exactly once and before     *)
(* use.  GetInstance() and GetRegistrar(handle) are each evaluated exactly *)
(* once per call, GetInstance() before GetRegistrar, GetRegistrar on the   *)
(* instance, and both have completed when RegisterWithRegistrar is         *)
(* entered; RegisterWithRegistrar is never entered while the lookup has    *)
(* not completed.                                                          *)
(***************************************************************************)
C6_Once ==
  \A k \in DOMAIN calls :
    /\ Cardinality(InstsOf(k)) <= 1
    /\ Cardinality(LookupsOf(k)) <= 1
    /\ \A j \in LookupsOf(k) :
         /\ Cardinality(InstsOf(k)) = 1
         /\ lookups[j].on = Manager
    /\ RegsOf(k) # {} =>
         /\ Cardinality(InstsOf(k)) = 1
         /\ Cardinality(LookupsOf(k)) = 1
         /\ \A j \in LookupsOf(k) : lookups[j].result # Pending

C6_Step ==
  /\ Len(lookups') > Len(lookups) =>
       /\ instance = <<Manager>>
       /\ LookupsOf(ThisCall) = {}
  /\ Len(regs') > Len(regs) =>
       /\ instance = <<Manager>>
       /\ typed # <<>>
       /\ Cardinality(LookupsOf(ThisCall)) = 1
       /\ \A j \in LookupsOf(ThisCall) : lookups[j].result = typed[1]

C6_ConvertedOnceBeforeUse == []C6_Once /\ [][C6_Step]_vars

\* RegisterWithRegistrar is running: one GetInstance, one completed lookup.
C6_Witness ==
  /\ pc = "inRegister"
  /\ Cardinality(InstsOf(ThisCall)) = 1
  /\ Cardinality(LookupsOf(ThisCall)) = 1
  /\ lookups[Len(lookups)].result = Typed(calls[ThisCall].handle)
  /\ regs[Len(regs)].call = ThisCall

(***************************************************************************)
(* C7: there is no once-only guard.  When n calls with handles h1..hn      *)
(* (repeats allowed) have returned, RegisterWithRegistrar has been entered *)
(* exactly n times, the i-th time with the registrar the lookup returned   *)
(* for hi; a second call with the same handle is not suppressed and no     *)
(* fault comes out of the function for it.                                 *)
(***************************************************************************)
C7_NoOnceOnlyGuard ==
  /\ \A i \in DOMAIN calls :
       Returned(i) =>
         /\ i \in DOMAIN regs /\ i \in DOMAIN lookups
         /\ regs[i].call = i
         /\ lookups[i].call = i
         /\ lookups[i].arg = Ref(calls[i].handle)
         /\ regs[i].arg = lookups[i].result
         /\ calls[i].valid => regs[i].arg = Typed(calls[i].handle)
  /\ pc = "idle" => (Len(regs) = Len(calls) /\ fault = "none")

\* The same valid handle was passed twice and registered twice.
C7_Witness ==
  /\ pc = "idle"
  /\ Len(calls) >= 2
  /\ calls[1].handle = calls[2].handle
  /\ calls[1].valid /\ calls[2].valid
  /\ Len(regs) = Len(calls)
  /\ regs[1].arg = regs[2].arg
  /\ Len(registered) = Len(calls)

====
